---- MODULE Spec2Model ----
(***************************************************************************)
(* A model of qutipy/weyl.py: the discrete Weyl (shift and phase)          *)
(* operators of a d-dimensional qudit, their n-qudit tensor products, the  *)
(* Weyl coefficient table, the quadrature covariance matrix, the sign flip *)
(* and the qudit CNOT gate.                                                *)
(*                                                                         *)
(* Numbers.  Every matrix entry the module produces lies in the ring       *)
(* generated by i and the d-th roots of unity for d in {2,3,4,6}, whose    *)
(* real and imaginary parts have the form (a + b*sqrt(3))/2 with integer   *)
(* a and b.  A complex number is therefore the exact 4-tuple               *)
(*     <<ra, rb, ia, ib>>  =  ((ra + rb*sqrt3) + i*(ia + ib*sqrt3)) / 2.   *)
(* The arithmetic is exact.  The floating point noise of the source, of    *)
(* the order of 10^-16 relative, matters in one place only: np.around(.,   *)
(* 10) of a value that lies exactly halfway between two multiples of       *)
(* 10^-10.  There the noise decides which neighbour is returned, and the   *)
(* model allows both; every other value is rounded to the nearest one.     *)
(*                                                                         *)
(* Scale.  The entries of an operator handed to nQudit_Weyl_coeff are      *)
(* fixed-point numbers counted in ulps of 10^-(Decimals+1): the value 1    *)
(* ulp is 10^-11, one rounding quantum 10^-10 is Quantum = 10 ulps and the *)
(* round-trip tolerance 10^-8 is Tol = 1000 ulps.  All other functions are *)
(* linear in the operator and do not depend on the scale.                  *)
(***************************************************************************)
EXTENDS Integers, Sequences, FiniteSets, TLC

VARIABLES
    fn,    \* the name of the function called
    args,  \* its arguments
    ret,   \* its result, once pc = "done"
    pc     \* "call" before the call, "done" after it

vars == <<fn, args, ret, pc>>

(***************************************************************************)
(* Bounds of the model.                                                    *)
(***************************************************************************)
\* qudit dimensions d range over 2..MaxD
MaxD == 3
\* n-qudit functions are called with d^n <= MaxDim
MaxDim == 4

Dims == 2..MaxD

RECURSIVE Pow(_, _)
Pow(b, k) == IF k = 0 THEN 1 ELSE b * Pow(b, k - 1)

\* the (d, n) pairs the n-qudit functions are called with
Systems == {p \in Dims \X (1..MaxDim) : Pow(p[1], p[2]) <= MaxDim}

(***************************************************************************)
(* Exact complex arithmetic (numpy complex128 without the rounding noise). *)
(***************************************************************************)
CZero == <<0, 0, 0, 0>>
COne == <<2, 0, 0, 0>>
CI == <<0, 0, 2, 0>>

CFromInt(k) == <<2 * k, 0, 0, 0>>
\* the Gaussian number re + i*im
CGauss(re, im) == <<2 * re, 0, 2 * im, 0>>

CAdd(x, y) == <<x[1] + y[1], x[2] + y[2], x[3] + y[3], x[4] + y[4]>>
CNeg(x) == <<-x[1], -x[2], -x[3], -x[4]>>
CSub(x, y) == CAdd(x, CNeg(y))
CConj(x) == <<x[1], x[2], -x[3], -x[4]>>

\* (a1 + b1*sqrt3) * (a2 + b2*sqrt3) as <<rational part, sqrt3 part>>
RMul(a1, b1, a2, b2) == <<a1 * a2 + 3 * b1 * b2, a1 * b2 + b1 * a2>>

\* the product of two numbers of the ring; the halving is exact there
CMul(x, y) ==
    IF x = CZero \/ y = CZero THEN CZero
    ELSE IF x = COne THEN y
    ELSE IF y = COne THEN x
    ELSE
    LET rr == RMul(x[1], x[2], y[1], y[2])
        ii == RMul(x[3], x[4], y[3], y[4])
        ri == RMul(x[1], x[2], y[3], y[4])
        ir == RMul(x[3], x[4], y[1], y[2])
    IN <<(rr[1] - ii[1]) \div 2, (rr[2] - ii[2]) \div 2,
         (ri[1] + ir[1]) \div 2, (ri[2] + ir[2]) \div 2>>

\* x ** k for an integer k >= 0
RECURSIVE CPow(_, _)
CPow(x, k) == IF k = 0 THEN COne ELSE CMul(x, CPow(x, k - 1))

\* np.exp(2 * np.pi * 1j / d)
RootOfUnity(d) ==
    CASE d = 1 -> COne
      [] d = 2 -> <<-2, 0, 0, 0>>
      [] d = 3 -> <<-1, 0, 0, 1>>
      [] d = 4 -> <<0, 0, 2, 0>>
      [] d = 6 -> <<1, 0, 0, 1>>

CIsReal(x) == x[3] = 0 /\ x[4] = 0

(***************************************************************************)
(* Dense matrices: r rows, c columns, entries e[<<i, j>>], 0-based.        *)
(***************************************************************************)
Force(f) == IF f = f THEN f ELSE f

Mat(r, c, E(_, _)) ==
    [r |-> r, c |-> c,
     e |-> Force([p \in (0..(r - 1)) \X (0..(c - 1)) |-> E(p[1], p[2])])]

RECURSIVE CSumFrom(_, _)
CSumFrom(s, k) == IF k > Len(s) THEN CZero ELSE CAdd(s[k], CSumFrom(s, k + 1))

\* sum of T(k) for k in lo..hi
CSum(lo, hi, T(_)) == CSumFrom([k \in 1..(hi - lo + 1) |-> T(lo + k - 1)], 1)

\* A @ B
MatMul(A, B) ==
    LET Entry(i, j) ==
            LET Term(k) == CMul(A.e[<<i, k>>], B.e[<<k, j>>])
            IN CSum(0, A.c - 1, Term)
    IN Mat(A.r, B.c, Entry)

\* A + B
MatAdd(A, B) ==
    LET Entry(i, j) == CAdd(A.e[<<i, j>>], B.e[<<i, j>>])
    IN Mat(A.r, A.c, Entry)

\* z * A for a scalar z
MatScale(z, A) ==
    LET Entry(i, j) == CMul(z, A.e[<<i, j>>])
    IN Mat(A.r, A.c, Entry)

\* the scalar 1, the start of a tensor fold: tensor(1, M) = M
Scalar1 ==
    LET Entry(i, j) == COne
    IN Mat(1, 1, Entry)

\* general_functions.ket(d, i): the d x 1 column with 1 in row i
ket(d, i) ==
    LET Entry(a, b) == IF a = i THEN COne ELSE CZero
    IN Mat(d, 1, Entry)

\* general_functions.eye(d)
eye(d) ==
    LET Entry(a, b) == IF a = b THEN COne ELSE CZero
    IN Mat(d, d, Entry)

\* general_functions.dag(M): the conjugate transpose
dag(M) ==
    LET Entry(a, b) == CConj(M.e[<<b, a>>])
    IN Mat(M.c, M.r, Entry)

\* general_functions.Tr(M)
Tr(M) ==
    LET Term(k) == M.e[<<k, k>>]
    IN CSum(0, M.r - 1, Term)

\* general_functions.tensor(A, B): the Kronecker product
tensor(A, B) ==
    LET Entry(i, j) ==
            CMul(A.e[<<i \div B.r, j \div B.c>>], B.e[<<i % B.r, j % B.c>>])
    IN Mat(A.r * B.r, A.c * B.c, Entry)

\* numpy.linalg.matrix_power(M, k), k >= 0
RECURSIVE matrix_power(_, _)
matrix_power(M, k) == IF k = 0 THEN eye(M.r) ELSE MatMul(matrix_power(M, k - 1), M)

\* np.mod(a, d) for d > 0: the result is in 0..d-1 for negative a as well
np_mod(a, d) == a % d

(***************************************************************************)
(* Single-qudit Weyl operators.                                            *)
(***************************************************************************)
RECURSIVE discrete_Weyl_X_loop(_, _, _)
discrete_Weyl_X_loop(d, i, X) ==
    IF i >= d THEN X
    ELSE discrete_Weyl_X_loop(d, i + 1,
            MatAdd(X, MatMul(ket(d, np_mod(i + 1, d)), dag(ket(d, i)))))

discrete_Weyl_X(d) ==
    discrete_Weyl_X_loop(d, 1, MatMul(ket(d, 1), dag(ket(d, 0))))

RECURSIVE discrete_Weyl_Z_loop(_, _, _, _)
\* (the variants named Mut_* are deliberately wrong versions of the
\* definition that follows them; each is used to show that a property
\* below depends on the code it is about)
discrete_Weyl_Z_loop(d, w, i, Z) ==
    IF i >= d THEN Z
    ELSE discrete_Weyl_Z_loop(d, w, i + 1,
            MatAdd(Z, MatMul(MatScale(CPow(w, i), ket(d, i)), dag(ket(d, i)))))

\* the phase taken with the wrong sign: w = exp(-2*pi*i/d)
Mut_discrete_Weyl_Z(d) ==
    discrete_Weyl_Z_loop(d, CConj(RootOfUnity(d)), 1, MatMul(ket(d, 0), dag(ket(d, 0))))

discrete_Weyl_Z(d) ==
    discrete_Weyl_Z_loop(d, RootOfUnity(d), 1, MatMul(ket(d, 0), dag(ket(d, 0))))

discrete_Weyl(d, z, x) ==
    MatMul(matrix_power(discrete_Weyl_Z(d), z), matrix_power(discrete_Weyl_X(d), x))

RECURSIVE discrete_Weyl_basis_loop(_, _, _)
\* the z-outer, x-inner double loop, flattened: k = z*d + x
discrete_Weyl_basis_loop(d, k, B) ==
    IF k >= d * d THEN B
    ELSE discrete_Weyl_basis_loop(d, k + 1,
            Append(B, discrete_Weyl(d, k \div d, k % d)))

RECURSIVE Mut_discrete_Weyl_basis_loop(_, _, _)
\* the loops nested the other way round: x outer, z inner
Mut_discrete_Weyl_basis_loop(d, k, B) ==
    IF k >= d * d THEN B
    ELSE Mut_discrete_Weyl_basis_loop(d, k + 1,
            Append(B, discrete_Weyl(d, k % d, k \div d)))

Mut_discrete_Weyl_basis(d) == Mut_discrete_Weyl_basis_loop(d, 0, <<>>)

discrete_Weyl_basis(d) == discrete_Weyl_basis_loop(d, 0, <<>>)

(***************************************************************************)
(* n-qudit tensor products.                                                *)
(***************************************************************************)
RECURSIVE generate_nQudit_X_loop(_, _, _, _)
generate_nQudit_X_loop(X, indices, k, out) ==
    IF k > Len(indices) THEN out
    ELSE generate_nQudit_X_loop(X, indices, k + 1,
            tensor(out, matrix_power(X, indices[k])))

generate_nQudit_X(d, indices) ==
    generate_nQudit_X_loop(discrete_Weyl_X(d), indices, 1, Scalar1)

RECURSIVE generate_nQudit_Z_loop(_, _, _, _)
generate_nQudit_Z_loop(Z, indices, k, out) ==
    IF k > Len(indices) THEN out
    ELSE generate_nQudit_Z_loop(Z, indices, k + 1,
            tensor(out, matrix_power(Z, indices[k])))

generate_nQudit_Z(d, indices) ==
    generate_nQudit_Z_loop(discrete_Weyl_Z(d), indices, 1, Scalar1)

\* the k-th tuple (k >= 0) of itertools.product(range(d), repeat=n):
\* lexicographic order, the rightmost element varying fastest
ProductTuple(d, n, k) == [p \in 1..n |-> (k \div Pow(d, n - p)) % d]

\* list(itertools.product(range(d), repeat=n))
itertools_product(d, n) == [k \in 1..Pow(d, n) |-> ProductTuple(d, n, k - 1)]

RECURSIVE nQudit_discrete_Weyl_basis_loop(_, _, _, _)
\* the s1-outer, s2-inner double loop, flattened: k = (i1-1)*|S| + (i2-1)
nQudit_discrete_Weyl_basis_loop(d, S, k, B) ==
    IF k >= Len(S) * Len(S) THEN B
    ELSE nQudit_discrete_Weyl_basis_loop(d, S, k + 1,
            Append(B, MatMul(generate_nQudit_Z(d, S[(k \div Len(S)) + 1]),
                             generate_nQudit_X(d, S[(k % Len(S)) + 1]))))

RECURSIVE Mut_nQudit_discrete_Weyl_basis_loop(_, _, _, _)
\* the two factors multiplied the other way round: X-tensor @ Z-tensor
Mut_nQudit_discrete_Weyl_basis_loop(d, S, k, B) ==
    IF k >= Len(S) * Len(S) THEN B
    ELSE Mut_nQudit_discrete_Weyl_basis_loop(d, S, k + 1,
            Append(B, MatMul(generate_nQudit_X(d, S[(k % Len(S)) + 1]),
                             generate_nQudit_Z(d, S[(k \div Len(S)) + 1]))))

Mut_nQudit_discrete_Weyl_basis(d, n) ==
    Mut_nQudit_discrete_Weyl_basis_loop(d, itertools_product(d, n), 0, <<>>)

nQudit_discrete_Weyl_basis(d, n) ==
    nQudit_discrete_Weyl_basis_loop(d, itertools_product(d, n), 0, <<>>)

(***************************************************************************)
(* Quadratures and the covariance matrix.                                  *)
(***************************************************************************)
\* list(np.array(dag(ket(n, count)), dtype=int).flatten())
QuadratureIndices(n, count) ==
    LET row == dag(ket(n, count))
    IN [k \in 1..n |-> row.e[<<0, k - 1>>][1] \div 2]

RECURSIVE nQudit_quadratures_loop(_, _, _, _)
\* for i in range(1, 2n+1, 2), with i = 2*count + 1
nQudit_quadratures_loop(d, n, count, S) ==
    IF 2 * count + 1 >= 2 * n + 1 THEN S
    ELSE LET i == 2 * count + 1
             v == QuadratureIndices(n, count)
         IN nQudit_quadratures_loop(d, n, count + 1,
                S @@ (i :> generate_nQudit_X(d, v))
                  @@ ((i + 1) :> generate_nQudit_Z(d, v)))

nQudit_quadratures(d, n) == nQudit_quadratures_loop(d, n, 0, <<>>)

\* the dagger on the second quadrature forgotten
Mut_nQudit_cov_matrix(X, d, n) ==
    LET S == nQudit_quadratures(d, n)
        Entry(i, j) == Tr(MatMul(MatMul(X, S[i + 1]), S[j + 1]))
    IN Mat(2 * n, 2 * n, Entry)

nQudit_cov_matrix(X, d, n) ==
    LET S == nQudit_quadratures(d, n)
        Entry(i, j) == Tr(MatMul(MatMul(X, S[i + 1]), dag(S[j + 1])))
    IN Mat(2 * n, 2 * n, Entry)

(***************************************************************************)
(* Rounding and the Weyl coefficient table.                                *)
(***************************************************************************)
\* the second argument of np.around
Decimals == 10
\* ulps per 10^-Decimals: the resolution of the fixed-point inputs
Quantum == 10

RECURSIVE ISqrtBetween(_, _, _)
\* the r in lo..hi with r*r <= m < (r+1)*(r+1), by bisection
ISqrtBetween(m, lo, hi) ==
    IF lo >= hi THEN lo
    ELSE LET mid == (lo + hi + 1) \div 2
         IN IF mid * mid <= m THEN ISqrtBetween(m, mid, hi)
            ELSE ISqrtBetween(m, lo, mid - 1)

Abs(a) == IF a < 0 THEN -a ELSE a

\* floor(b * sqrt3)
FloorSqrt3(b) ==
    IF b >= 0 THEN ISqrtBetween(3 * b * b, 0, 2 * b)
    ELSE -ISqrtBetween(3 * b * b, 0, 2 * Abs(b)) - 1

\* the integers nearest to (a + b*sqrt3) / m.  np.around computes
\* rint(x * 1e10) / 1e10 on doubles: a value that lies exactly halfway
\* between two multiples of 10^-10 reaches rint a few units in the last
\* place above or below the half (x and x * 1e10 are both inexact), so
\* either neighbour can come out; away from a tie the nearest one does
RoundNearest(a, b, m) ==
    IF b # 0 THEN {(2 * (a + FloorSqrt3(b)) + m) \div (2 * m)}
    ELSE LET q == a \div m
             r == a % m
         IN IF 2 * r < m THEN {q}
            ELSE IF 2 * r > m THEN {q + 1}
            ELSE {q, q + 1}

\* np.around(z, Decimals) of a complex z counted in ulps: the values it can
\* return; the real and the imaginary part are each rounded to a nearest
\* multiple of Quantum
np_around(z) ==
    {CGauss(Quantum * kr, Quantum * ki) :
        kr \in RoundNearest(z[1], z[2], 2 * Quantum),
        ki \in RoundNearest(z[3], z[4], 2 * Quantum)}

\* the keys of the table: (str(s), str(t)) for s, t in S; str is one-to-one
\* on index lists, so a key is modelled by the pair of lists itself
CoeffKeys(S) == {<<S[i], S[j]>> : i \in 1..Len(S), j \in 1..Len(S)}

RECURSIVE Tables(_, _)
\* the tables C on the given keys with C[key] in opts[key] for every key
Tables(opts, keys) ==
    IF keys = {} THEN {<<>>}
    ELSE LET key == CHOOSE k \in keys : TRUE
         IN {C @@ (key :> v) : C \in Tables(opts, keys \ {key}), v \in opts[key]}

\* a stored coefficient (1 / d**n) * num is kept as the exact fraction
\* num/den.  nQudit_Weyl_coeff and its variants give the set of tables the
\* call can return (more than one only when a trace lies on a rounding tie)

\* the scaling done before the rounding: around(Tr(...) / d**n, 10)
Mut_nQudit_Weyl_coeff_RoundLast(X, d, n) ==
    LET S == itertools_product(d, n)
        den == Pow(d, n)
        G(s, t) == MatMul(generate_nQudit_X(d, s), generate_nQudit_Z(d, t))
        T(s, t) == Tr(MatMul(dag(G(s, t)), X))
        R(z) == {CGauss(Quantum * kr, Quantum * ki) :
                    kr \in RoundNearest(z[1], z[2], 2 * Quantum * den),
                    ki \in RoundNearest(z[3], z[4], 2 * Quantum * den)}
        opts == Force([key \in CoeffKeys(S) |->
                    {[num |-> CMul(CFromInt(den), r), den |-> den] :
                        r \in R(T(key[1], key[2]))}])
    IN Tables(opts, CoeffKeys(S))

\* the dagger on the basis operator forgotten
Mut_nQudit_Weyl_coeff_NoDag(X, d, n) ==
    LET S == itertools_product(d, n)
        G(s, t) == MatMul(generate_nQudit_X(d, s), generate_nQudit_Z(d, t))
        opts == Force([key \in CoeffKeys(S) |->
                    {[num |-> r, den |-> Pow(d, n)] :
                        r \in np_around(Tr(MatMul(G(key[1], key[2]), X)))}])
    IN Tables(opts, CoeffKeys(S))

nQudit_Weyl_coeff(X, d, n) ==
    LET S == itertools_product(d, n)
        G(s, t) == MatMul(generate_nQudit_X(d, s), generate_nQudit_Z(d, t))
        opts == Force([key \in CoeffKeys(S) |->
                    {[num |-> r, den |-> Pow(d, n)] :
                        r \in np_around(Tr(MatMul(dag(G(key[1], key[2])), X)))}])
    IN Tables(opts, CoeffKeys(S))

(***************************************************************************)
(* The sign flip and the qudit CNOT gate.                                  *)
(***************************************************************************)
RECURSIVE flip_sign_loop(_, _, _)
flip_sign_loop(d, i, P) ==
    IF i >= d THEN P
    ELSE flip_sign_loop(d, i + 1,
            MatAdd(P, MatMul(ket(d, np_mod(-i, d)), dag(ket(d, i)))))

RECURSIVE Mut_flip_sign_loop(_, _, _)
\* the negation forgotten: |i><i| instead of |(-i) mod d><i|
Mut_flip_sign_loop(d, i, P) ==
    IF i >= d THEN P
    ELSE Mut_flip_sign_loop(d, i + 1,
            MatAdd(P, MatMul(ket(d, np_mod(i, d)), dag(ket(d, i)))))

Mut_flip_sign(d) == Mut_flip_sign_loop(d, 1, MatMul(ket(d, 0), dag(ket(d, 0))))

flip_sign(d) == flip_sign_loop(d, 1, MatMul(ket(d, 0), dag(ket(d, 0))))

RECURSIVE CNOT_qudit_loop(_, _, _, _, _, _)
CNOT_qudit_loop(d, alt, P, X, i, C) ==
    IF i >= d THEN C
    ELSE LET Xi == matrix_power(X, i)
             proj == MatMul(ket(d, i), dag(ket(d, i)))
         IN CNOT_qudit_loop(d, alt, P, X, i + 1,
                IF alt THEN MatAdd(C, tensor(proj, Xi))
                ELSE MatAdd(C, tensor(proj, MatMul(Xi, P))))

\* the alt flag ignored: X^i @ P in both variants
Mut_CNOT_qudit_IgnoreAlt(d, alt) ==
    CNOT_qudit_loop(d, FALSE, flip_sign(d), discrete_Weyl_X(d), 1,
                    tensor(MatMul(ket(d, 0), dag(ket(d, 0))), eye(d)))

\* the loop started one too late: range(2, d)
Mut_CNOT_qudit_LateStart(d, alt) ==
    CNOT_qudit_loop(d, alt, flip_sign(d), discrete_Weyl_X(d), 2,
                    tensor(MatMul(ket(d, 0), dag(ket(d, 0))), eye(d)))

CNOT_qudit(d, alt) ==
    CNOT_qudit_loop(d, alt, flip_sign(d), discrete_Weyl_X(d), 1,
                    tensor(MatMul(ket(d, 0), dag(ket(d, 0))), eye(d)))

(***************************************************************************)
(* The operators the callers hand in: a*|r><c| + b*|c><r| for entries a, b *)
(* of a small set of Gaussian numbers, and the identity.  b = conj(a)      *)
(* gives the Hermitian ones.                                               *)
(***************************************************************************)
Entries ==
    {CGauss(0, 0), CGauss(5, 0), CGauss(14, 0), CGauss(2004, 0),
     CGauss(3, 7), CGauss(3, -7)}

Sparse(dim, r, c, a, b) ==
    LET Entry(i, j) ==
            CAdd(IF i = r /\ j = c THEN a ELSE CZero,
                 IF i = c /\ j = r THEN b ELSE CZero)
    IN Mat(dim, dim, Entry)

OperatorInputs(dim) ==
    {Sparse(dim, r, c, a, b) :
        r \in 0..(dim - 1), c \in 0..(dim - 1), a \in Entries, b \in Entries}
    \cup {eye(dim)}

IndexLists(d, n) == {ProductTuple(d, n, k) : k \in 0..(Pow(d, n) - 1)}

(***************************************************************************)
(* A behaviour is one call of a library function: the initial state holds  *)
(* the function's name and its arguments, the step computes the result.    *)
(* The library keeps no state between calls.                               *)
(***************************************************************************)
NoRet == <<>>

Calls ==
    {<<"discrete_Weyl_X", [d |-> d]>> : d \in Dims}
    \cup {<<"discrete_Weyl_Z", [d |-> d]>> : d \in Dims}
    \cup UNION {{<<"discrete_Weyl", [d |-> d, z |-> z, x |-> x]>> :
                    z \in 0..(d - 1), x \in 0..(d - 1)} : d \in Dims}
    \cup {<<"discrete_Weyl_basis", [d |-> d]>> : d \in Dims}
    \cup UNION {{<<"generate_nQudit_X", [d |-> sys[1], indices |-> ix]>> :
                    ix \in IndexLists(sys[1], sys[2])} : sys \in Systems}
    \cup UNION {{<<"generate_nQudit_Z", [d |-> sys[1], indices |-> ix]>> :
                    ix \in IndexLists(sys[1], sys[2])} : sys \in Systems}
    \cup {<<"nQudit_discrete_Weyl_basis", [d |-> sys[1], n |-> sys[2]]>> :
                    sys \in Systems}
    \cup {<<"nQudit_quadratures", [d |-> sys[1], n |-> sys[2]]>> : sys \in Systems}
    \cup UNION {{<<"nQudit_cov_matrix", [d |-> sys[1], n |-> sys[2], X |-> X]>> :
                    X \in OperatorInputs(Pow(sys[1], sys[2]))} : sys \in Systems}
    \cup UNION {{<<"nQudit_Weyl_coeff", [d |-> sys[1], n |-> sys[2], X |-> X]>> :
                    X \in OperatorInputs(Pow(sys[1], sys[2]))} : sys \in Systems}
    \cup {<<"flip_sign", [d |-> d]>> : d \in Dims}
    \cup {<<"CNOT_qudit", [d |-> d, alt |-> alt]>> : d \in Dims, alt \in BOOLEAN}

Init ==
    /\ pc = "call"
    /\ ret = NoRet
    /\ \E call \in Calls :
        /\ fn = call[1]
        /\ args = call[2]

Call_discrete_Weyl_X ==
    /\ pc = "call"
    /\ fn = "discrete_Weyl_X"
    /\ ret' = discrete_Weyl_X(args.d)
    /\ pc' = "done"
    /\ UNCHANGED <<fn, args>>

Call_discrete_Weyl_Z ==
    /\ pc = "call"
    /\ fn = "discrete_Weyl_Z"
    /\ ret' = discrete_Weyl_Z(args.d)
    /\ pc' = "done"
    /\ UNCHANGED <<fn, args>>

Call_discrete_Weyl ==
    /\ pc = "call"
    /\ fn = "discrete_Weyl"
    /\ ret' = discrete_Weyl(args.d, args.z, args.x)
    /\ pc' = "done"
    /\ UNCHANGED <<fn, args>>

Call_discrete_Weyl_basis ==
    /\ pc = "call"
    /\ fn = "discrete_Weyl_basis"
    /\ ret' = discrete_Weyl_basis(args.d)
    /\ pc' = "done"
    /\ UNCHANGED <<fn, args>>

Call_generate_nQudit_X ==
    /\ pc = "call"
    /\ fn = "generate_nQudit_X"
    /\ ret' = generate_nQudit_X(args.d, args.indices)
    /\ pc' = "done"
    /\ UNCHANGED <<fn, args>>

Call_generate_nQudit_Z ==
    /\ pc = "call"
    /\ fn = "generate_nQudit_Z"
    /\ ret' = generate_nQudit_Z(args.d, args.indices)
    /\ pc' = "done"
    /\ UNCHANGED <<fn, args>>

Call_nQudit_discrete_Weyl_basis ==
    /\ pc = "call"
    /\ fn = "nQudit_discrete_Weyl_basis"
    /\ ret' = nQudit_discrete_Weyl_basis(args.d, args.n)
    /\ pc' = "done"
    /\ UNCHANGED <<fn, args>>

Call_nQudit_quadratures ==
    /\ pc = "call"
    /\ fn = "nQudit_quadratures"
    /\ ret' = nQudit_quadratures(args.d, args.n)
    /\ pc' = "done"
    /\ UNCHANGED <<fn, args>>

Call_nQudit_cov_matrix ==
    /\ pc = "call"
    /\ fn = "nQudit_cov_matrix"
    /\ ret' = nQudit_cov_matrix(args.X, args.d, args.n)
    /\ pc' = "done"
    /\ UNCHANGED <<fn, args>>

Call_nQudit_Weyl_coeff ==
    /\ pc = "call"
    /\ fn = "nQudit_Weyl_coeff"
    /\ ret' \in nQudit_Weyl_coeff(args.X, args.d, args.n)
    /\ pc' = "done"
    /\ UNCHANGED <<fn, args>>

Call_flip_sign ==
    /\ pc = "call"
    /\ fn = "flip_sign"
    /\ ret' = flip_sign(args.d)
    /\ pc' = "done"
    /\ UNCHANGED <<fn, args>>

Call_CNOT_qudit ==
    /\ pc = "call"
    /\ fn = "CNOT_qudit"
    /\ ret' = CNOT_qudit(args.d, args.alt)
    /\ pc' = "done"
    /\ UNCHANGED <<fn, args>>

Next ==
    \/ Call_discrete_Weyl_X
    \/ Call_discrete_Weyl_Z
    \/ Call_discrete_Weyl
    \/ Call_discrete_Weyl_basis
    \/ Call_generate_nQudit_X
    \/ Call_generate_nQudit_Z
    \/ Call_nQudit_discrete_Weyl_basis
    \/ Call_nQudit_quadratures
    \/ Call_nQudit_cov_matrix
    \/ Call_nQudit_Weyl_coeff
    \/ Call_flip_sign
    \/ Call_CNOT_qudit

Spec == Init /\ [][Next]_vars

(***************************************************************************)
(* Properties.                                                             *)
(***************************************************************************)
\* the call of function f has returned: ret holds its result
Returned(f) == pc = "done" /\ fn = f

\* the two-qudit basis state |i>|j>
BasisPair(d, i, j) == tensor(ket(d, i), ket(d, j))

\* C1: for every d and all i, j in [0,d), CNOT_qudit(d, alt=False) maps
\* |i>|j> to |i>|(i-j) mod d>, the control value i = 0 included.  The code
\* leaves |0>|j> unchanged, so this fails for d >= 3 (|0>|1> stays |0>|1>
\* where the stated map gives |0>|2>).
C1_SubtractsForEveryControl ==
    (Returned("CNOT_qudit") /\ ~args.alt) =>
        \A i \in 0..(args.d - 1) : \A j \in 0..(args.d - 1) :
            MatMul(ret, BasisPair(args.d, i, j))
                = BasisPair(args.d, i, (i + args.d - j) % args.d)

\* C8: for every d and all i, j in [0,d), CNOT_qudit(d, alt=True) maps
\* |i>|j> to |i>|(i+j) mod d>.
C8_AltAdds ==
    (Returned("CNOT_qudit") /\ args.alt) =>
        \A i \in 0..(args.d - 1) : \A j \in 0..(args.d - 1) :
            MatMul(ret, BasisPair(args.d, i, j))
                = BasisPair(args.d, i, (i + j) % args.d)

\* the alt gate was built for d = 3 and sends |2>|2> to |2>|1> (the sum wraps)
C8_Witness ==
    /\ Returned("CNOT_qudit")
    /\ args.alt
    /\ args.d = 3
    /\ MatMul(ret, BasisPair(3, 2, 2)) = BasisPair(3, 2, 1)

StandardCNOT ==
    LET rows == <<<<1, 0, 0, 0>>, <<0, 1, 0, 0>>, <<0, 0, 0, 1>>, <<0, 0, 1, 0>>>>
        Entry(i, j) == CFromInt(rows[i + 1][j + 1])
    IN Mat(4, 4, Entry)

\* C9: at d = 2 both CNOT_qudit(2, alt=False) and CNOT_qudit(2, alt=True)
\* are the standard two-qubit CNOT matrix.
C9_QubitCNOT ==
    (Returned("CNOT_qudit") /\ args.d = 2) => ret = StandardCNOT

\* the default (alt=False) gate was built for d = 2 and swaps |1>|0>, |1>|1>
C9_Witness ==
    /\ Returned("CNOT_qudit")
    /\ args.d = 2
    /\ ~args.alt
    /\ ret.e[<<2, 3>>] = COne
    /\ ret.e[<<3, 2>>] = COne

\* C10: flip_sign(d) is the permutation P with P|i> = |(-i) mod d> for
\* every i in [0,d): index 0 is fixed and, for d = 3, 1 -> 2 and 2 -> 1.
C10_FlipSign ==
    (Returned("flip_sign")) =>
        /\ ret.r = args.d /\ ret.c = args.d
        /\ \A i \in 0..(args.d - 1) :
            MatMul(ret, ket(args.d, i)) = ket(args.d, (args.d - i) % args.d)
        /\ MatMul(ret, ket(args.d, 0)) = ket(args.d, 0)
        /\ (args.d = 3) =>
            /\ MatMul(ret, ket(3, 1)) = ket(3, 2)
            /\ MatMul(ret, ket(3, 2)) = ket(3, 1)

\* flip_sign(3) was built and is not the identity: it moves index 1 to 2
C10_Witness ==
    /\ Returned("flip_sign")
    /\ args.d = 3
    /\ ret.e[<<2, 1>>] = COne
    /\ ret.e[<<1, 1>>] = CZero

\* C4: the Weyl commutation relation Z @ X = w * X @ Z with
\* w = exp(2*pi*i/d); on every basis index i, Z X|i> is w^((i+1) mod d)
\* times |(i+1) mod d> and X Z|i> is w^i times the same vector.
C4_WeylCommutation ==
    (Returned("discrete_Weyl_X")) =>
        LET d == args.d
            w == RootOfUnity(d)
            X == ret
            Z == discrete_Weyl_Z(d)
            ZX == MatMul(Z, X)
            XZ == MatMul(X, Z)
        IN /\ ZX = MatScale(w, XZ)
           /\ \A i \in 0..(d - 1) :
                /\ MatMul(ZX, ket(d, i))
                    = MatScale(CPow(w, (i + 1) % d), ket(d, (i + 1) % d))
                /\ MatMul(XZ, ket(d, i))
                    = MatScale(CPow(w, i), ket(d, (i + 1) % d))

\* X(3) was built; with Z(3) the two products differ (w is not 1)
C4_Witness ==
    /\ Returned("discrete_Weyl_X")
    /\ args.d = 3
    /\ MatMul(discrete_Weyl_Z(3), ret) # MatMul(ret, discrete_Weyl_Z(3))

\* C5: discrete_Weyl_basis(d) has exactly d^2 elements, the element at
\* position z*d + x is Z^z X^x (it sends |i> to w^(z*(i+x)) |(i+x) mod d>),
\* and Tr(dag(B[a]) @ B[b]) is 0 for a # b and d for a = b.
C5_BasisOrthogonal ==
    (Returned("discrete_Weyl_basis")) =>
        LET d == args.d
            w == RootOfUnity(d)
        IN /\ Len(ret) = d * d
           /\ \A z \in 0..(d - 1) : \A x \in 0..(d - 1) : \A i \in 0..(d - 1) :
                MatMul(ret[z * d + x + 1], ket(d, i))
                    = MatScale(CPow(w, (z * (i + x)) % d), ket(d, (i + x) % d))
           /\ \A a \in 1..(d * d) : \A b \in 1..(d * d) :
                Tr(MatMul(dag(ret[a]), ret[b]))
                    = IF a = b THEN CFromInt(d) ELSE CZero

\* the basis for d = 3 was built: nine elements, the last one Z^2 X^2
C5_Witness ==
    /\ Returned("discrete_Weyl_basis")
    /\ args.d = 3
    /\ Len(ret) = 9
    /\ ret[9] = discrete_Weyl(3, 2, 2)

RECURSIVE TensorOfWeyl(_, _, _, _, _)
\* the tensor product over the sites k of discrete_Weyl(d, z[k], x[k])
TensorOfWeyl(d, z, x, k, out) ==
    IF k > Len(z) THEN out
    ELSE TensorOfWeyl(d, z, x, k + 1, tensor(out, discrete_Weyl(d, z[k], x[k])))

\* C6 as stated: each entry of nQudit_discrete_Weyl_basis(d, n), s1 outer
\* and s2 inner, is generate_nQudit_Z(d, s1) @ generate_nQudit_X(d, s2), and
\* the single-qudit discrete_Weyl(d, z, x) uses the opposite factor order
\* (X-type factor left, Z-type factor right).
C6_OppositeOrder ==
    (Returned("nQudit_discrete_Weyl_basis")) =>
        LET d == args.d
            S == itertools_product(d, args.n)
        IN \A i1 \in 1..Len(S) : \A i2 \in 1..Len(S) :
            /\ ret[(i1 - 1) * Len(S) + i2]
                = MatMul(generate_nQudit_Z(d, S[i1]), generate_nQudit_X(d, S[i2]))
            /\ TensorOfWeyl(d, S[i1], S[i2], 1, Scalar1)
                = MatMul(generate_nQudit_X(d, S[i2]), generate_nQudit_Z(d, S[i1]))

\* C6 as amended: each entry, s1 outer and s2 inner, is
\* generate_nQudit_Z(d, s1) @ generate_nQudit_X(d, s2), and that is the SAME
\* factor order as discrete_Weyl(d, z, x) = Z^z X^x: the entry is the tensor
\* product over the sites k of discrete_Weyl(d, s1[k], s2[k]).
C6_SameOrder ==
    (Returned("nQudit_discrete_Weyl_basis")) =>
        LET d == args.d
            S == itertools_product(d, args.n)
        IN /\ Len(ret) = Len(S) * Len(S)
           /\ \A i1 \in 1..Len(S) : \A i2 \in 1..Len(S) :
                /\ ret[(i1 - 1) * Len(S) + i2]
                    = MatMul(generate_nQudit_Z(d, S[i1]), generate_nQudit_X(d, S[i2]))
                /\ ret[(i1 - 1) * Len(S) + i2]
                    = TensorOfWeyl(d, S[i1], S[i2], 1, Scalar1)

\* the two-qubit basis was built: 16 entries, and the entry for
\* s1 = (0,1), s2 = (0,1) is Id (x) ZX, which is not Id (x) XZ
C6_Witness ==
    /\ Returned("nQudit_discrete_Weyl_basis")
    /\ args.d = 2
    /\ args.n = 2
    /\ Len(ret) = 16
    /\ ret[6] = tensor(eye(2), discrete_Weyl(2, 1, 1))
    /\ ret[6] # MatMul(generate_nQudit_X(2, <<0, 1>>), generate_nQudit_Z(2, <<0, 1>>))

\* a + b*sqrt3 <= T for integers a, b, T
RLeq(a, b, T) == IF b = 0 THEN a <= T ELSE a + FloorSqrt3(b) < T

\* the real and the imaginary part of z are both at most T/2 in size
\* (z is kept doubled)
CWithin(z, T) ==
    /\ RLeq(z[1], z[2], T) /\ RLeq(-z[1], -z[2], T)
    /\ RLeq(z[3], z[4], T) /\ RLeq(-z[3], -z[4], T)

\* the round-trip tolerance 10^-8, in ulps
Tol == Pow(10, Decimals - 8) * Quantum

RECURSIVE WeightedSum(_, _, _, _, _)
\* den * sum over (s, t) of coeff(s, t) * (generate_nQudit_X(d, s) @ generate_nQudit_Z(d, t))
WeightedSum(C, d, S, k, acc) ==
    IF k >= Len(S) * Len(S) THEN acc
    ELSE LET s == S[(k \div Len(S)) + 1]
             t == S[(k % Len(S)) + 1]
         IN WeightedSum(C, d, S, k + 1,
                MatAdd(acc, MatScale(C[<<s, t>>].num,
                    MatMul(generate_nQudit_X(d, s), generate_nQudit_Z(d, t)))))

ZeroMatrix(dim) ==
    LET Entry(i, j) == CZero
    IN Mat(dim, dim, Entry)

Reconstructed(C, d, n) ==
    WeightedSum(C, d, itertools_product(d, n), 0, ZeroMatrix(Pow(d, n)))

\* C2: the round trip of the Weyl decomposition: the sum over all (s, t) of
\* coeff(s,t) * (generate_nQudit_X(d,s) @ generate_nQudit_Z(d,t)), with the
\* coefficients of nQudit_Weyl_coeff(X,d,n), recovers X within 10^-8 (here:
\* the real and the imaginary part of every entry within half of that).
C2_RoundTrip ==
    Returned("nQudit_Weyl_coeff") =>
        LET den == Pow(args.d, args.n)
            R == Reconstructed(ret, args.d, args.n)
            DX == MatScale(CFromInt(den), args.X)
        IN \A p \in DOMAIN R.e :
            CWithin(CSub(R.e[p], DX.e[p]), den * Tol)

\* a qutrit operator with an entry of about 2*10^-8 was decomposed, and the
\* rounding of its coefficients shows: the sum is close to X, not equal
C2_Witness ==
    /\ Returned("nQudit_Weyl_coeff")
    /\ args.d = 3
    /\ \E p \in DOMAIN args.X.e : args.X.e[p] = CGauss(2004, 0)
    /\ Reconstructed(ret, 3, args.n) # MatScale(CFromInt(Pow(3, args.n)), args.X)

RECURSIVE DotFrom(_, _, _)
\* sum over the sites k.. of t[k] * b[k]
DotFrom(t, b, k) == IF k > Len(t) THEN 0 ELSE t[k] * b[k] + DotFrom(t, b, k + 1)

RECURSIVE ShiftedFrom(_, _, _, _)
\* the index of the basis state whose dits are (b[k] + s[k]) mod d
ShiftedFrom(d, b, s, k) ==
    IF k > Len(b) THEN 0
    ELSE ((b[k] + s[k]) % d) * Pow(d, Len(b) - k) + ShiftedFrom(d, b, s, k + 1)

\* Tr(dag(X^s Z^t) @ A) written out: X^s Z^t sends the basis state b to
\* w^(t.b) times the state b + s, so the trace is the sum over b of
\* conj(w^(t.b)) * A[b + s, b]
ExactTrace(A, d, n, s, t) ==
    LET Term(k) ==
            LET b == ProductTuple(d, n, k)
            IN CMul(CConj(CPow(RootOfUnity(d), DotFrom(t, b, 1) % d)),
                    A.e[<<ShiftedFrom(d, b, s, 1), k>>])
    IN CSum(0, Pow(d, n) - 1, Term)

\* z is a multiple of m ulps in its real and in its imaginary part
OnGrid(z, m) ==
    /\ z[2] = 0 /\ z[4] = 0
    /\ z[1] % (2 * m) = 0 /\ z[3] % (2 * m) = 0

\* C3 as stated: the table has one entry per pair (s, t) of index lists,
\* and each stored coefficient is (1/d^n) * Tr(dag(X^s Z^t) @ X) rounded to
\* 10 decimal places: the stored coefficient itself is a multiple of 10^-10
\* and is the one nearest to the scaled trace.
C3_CoefficientRounded ==
    Returned("nQudit_Weyl_coeff") =>
        LET d == args.d
            n == args.n
            den == Pow(d, n)
            L == IndexLists(d, n)
        IN /\ DOMAIN ret = L \X L
           /\ Cardinality(DOMAIN ret) = Pow(d, 2 * n)
           /\ \A key \in DOMAIN ret :
                /\ ret[key].den = den
                /\ OnGrid(ret[key].num, Quantum * den)
                /\ CWithin(CSub(ret[key].num,
                                ExactTrace(args.X, d, n, key[1], key[2])),
                           Quantum * den)

\* C3 as amended: the table has one entry per pair (s, t) of index lists,
\* and each stored coefficient is (1/d^n) times the rounded trace: it is
\* Tr(dag(X^s Z^t) @ X) that is rounded to 10 decimal places (to a nearest
\* multiple of 10^-10), and the division by d^n comes after the rounding.
C3_TraceRounded ==
    Returned("nQudit_Weyl_coeff") =>
        LET d == args.d
            n == args.n
            den == Pow(d, n)
            L == IndexLists(d, n)
        IN /\ DOMAIN ret = L \X L
           /\ Cardinality(DOMAIN ret) = Pow(d, 2 * n)
           /\ \A key \in DOMAIN ret :
                LET T == ExactTrace(args.X, d, n, key[1], key[2])
                    c == ret[key]
                IN /\ c.den = den
                   /\ OnGrid(c.num, Quantum)
                   /\ CWithin(CSub(c.num, T), Quantum)

\* a qubit operator was decomposed and one stored coefficient is a rounded
\* trace of exactly one quantum (10^-10) divided by 2: 0.5 * 10^-10, which
\* has 11 decimal digits
C3_Witness ==
    /\ Returned("nQudit_Weyl_coeff")
    /\ args.d = 2
    /\ args.n = 1
    /\ \E key \in DOMAIN ret :
        /\ ret[key].num = CGauss(Quantum, 0)
        /\ ret[key].den = 2
        /\ ExactTrace(args.X, 2, 1, key[1], key[2]) # ret[key].num

IsHermitian(A) == dag(A) = A

\* V[i,j] = Tr(X @ S[i+1] @ dag(S[j+1])) for the quadratures S, keys 1..2n
CovEntriesAsStated(V, A, d, n) ==
    LET S == nQudit_quadratures(d, n)
    IN /\ DOMAIN S = 1..(2 * n)
       /\ V.r = 2 * n /\ V.c = 2 * n
       /\ \A i \in 0..(2 * n - 1) : \A j \in 0..(2 * n - 1) :
            V.e[<<i, j>>] = Tr(MatMul(MatMul(A, S[i + 1]), dag(S[j + 1])))

\* for n = 1, d = 2 and X the identity V is diag(2, 2)
CovOfIdentity(V, A, d, n) ==
    (d = 2 /\ n = 1 /\ A = eye(2)) => V = MatScale(CFromInt(2), eye(2))

\* C7 as stated: for Hermitian X, nQudit_cov_matrix(X,d,n) is the 2n x 2n
\* matrix V[i,j] = Tr(X @ S[i+1] @ dag(S[j+1])), every entry of V is real,
\* and for n = 1, d = 2, X = identity it is diag(2, 2).
C7_CovReal ==
    (Returned("nQudit_cov_matrix") /\ IsHermitian(args.X)) =>
        /\ CovEntriesAsStated(ret, args.X, args.d, args.n)
        /\ \A p \in DOMAIN ret.e : CIsReal(ret.e[p])
        /\ CovOfIdentity(ret, args.X, args.d, args.n)

\* C7 as amended: for Hermitian X, V[i,j] = Tr(X @ S[i+1] @ dag(S[j+1])),
\* V is Hermitian (V[j,i] is the complex conjugate of V[i,j]) and its
\* diagonal entries are real, each equal to Tr(X); off the diagonal an entry
\* may have a nonzero imaginary part.  For n = 1, d = 2, X = identity V is
\* diag(2, 2).
C7_CovHermitian ==
    (Returned("nQudit_cov_matrix") /\ IsHermitian(args.X)) =>
        /\ CovEntriesAsStated(ret, args.X, args.d, args.n)
        /\ IsHermitian(ret)
        /\ \A i \in 0..(2 * args.n - 1) :
            /\ CIsReal(ret.e[<<i, i>>])
            /\ ret.e[<<i, i>>] = Tr(args.X)
        /\ CovOfIdentity(ret, args.X, args.d, args.n)

\* the covariance matrix of a Hermitian qubit operator with imaginary
\* off-diagonal entries was computed, and V[0,1] is not real
C7_Witness ==
    /\ Returned("nQudit_cov_matrix")
    /\ IsHermitian(args.X)
    /\ args.d = 2
    /\ args.n = 1
    /\ ~CIsReal(ret.e[<<0, 1>>])
    /\ ret.e[<<1, 0>>] = CConj(ret.e[<<0, 1>>])

====
